---- MODULE Spec2Model ----
(***************************************************************************)
(* Model of UnitSelectionSystem::update                                    *)
(* (src/src/ecs/system/unit_selection_system.rs).                          *)
(*                                                                         *)
(* One pass of the system reads the input resources (mouse buttons,        *)
(* modifier keys, the grid cell under the cursor, the mouse ray) and the   *)
(* unit components, and writes the selection markers, the per-entity       *)
(* action queues and the decal entities.  The resources are written by     *)
(* other systems between two passes: action Input models that, action      *)
(* Update models the pass itself.                                          *)
(***************************************************************************)
EXTENDS Integers, Sequences, FiniteSets, TLC

VARIABLES
    units_comp,                     \* entity id -> UnitComponent (a sequence indexed by id)
    transforms_comp,                \* ids of the entities that carry a TransformComponent
    on_screen_comp,                 \* ids of the entities that carry an OnScreenComponent
    selected_units_comp,            \* ids of the entities that carry a SelectedUnitComponent
    action_batcher,                 \* entity id -> sequence of queued actions
    decals_comp,                    \* the decal entities created so far, in creation order
    mouse_left,                     \* key state of MouseButton::Left
    mouse_right,                    \* key state of MouseButton::Right
    keys_down,                      \* the modifier keys that are held
    entity_ids_in_cell,             \* result of grid.query_single_cell at the ray's ground point
    ray_hits,                       \* ids of the entities whose selection box intersects the mouse ray
    cursor_over_targetable_entity,  \* the flag computed by the last pass
    terrain,                        \* the elevation range of the terrain and its height under the cursor
    mouse_position,                 \* mouse_state.position, in the viewport
    viewport_top_left,              \* viewport.top_left_i32()
    mouse_ray,                      \* the MouseRay calculate_mouse_ray returns
    clicks,                         \* history: how far the last left clicks got in the sequences below
    pc                              \* "input": a frame starts, "update": the pass is due, "done": the pass
                                    \* has run, "failed": the pass has ended in a fatal failure

\* what calculate_mouse_ray reads and returns
ray_vars == <<terrain, mouse_position, viewport_top_left, mouse_ray>>

\* what the loops of the pass read and write
pass_vars == <<units_comp, transforms_comp, on_screen_comp, selected_units_comp,
               action_batcher, decals_comp, mouse_left, mouse_right, keys_down,
               entity_ids_in_cell, ray_hits, cursor_over_targetable_entity, clicks>>

vars == <<units_comp, transforms_comp, on_screen_comp, selected_units_comp,
          action_batcher, decals_comp, mouse_left, mouse_right, keys_down,
          entity_ids_in_cell, ray_hits, cursor_over_targetable_entity, clicks, pc,
          terrain, mouse_position, viewport_top_left, mouse_ray>>

(***************************************************************************)
(* Bounds.                                                                 *)
(***************************************************************************)
MaxQueue == 3        \* longest action queue of one entity
MaxDecals == 2       \* most decal entities alive at once
MaxElevation == 3    \* highest terrain elevation
MaxPixel == 1        \* largest pixel coordinate of the mouse and of the viewport

(***************************************************************************)
(* Static game data: dat::EmpiresDb, keyed by unit id.                     *)
(***************************************************************************)
LocalPlayer == "local"     \* players_rc.local_player().player_id
OtherPlayer == "other"

Normal == "Normal"
NonInteracting == "NonInteracting"

None == [some |-> FALSE]
Some(atk, arm) == [some |-> TRUE, attacks |-> atk, armors |-> arm]

\* attacks and armors are lists of (class, amount) pairs, as in the dat file
Archer    == "Archer"
Swordsman == "Swordsman"
Villager  == "Villager"
Tree      == "Tree"
Corpse    == "Corpse"
Boat      == "Boat"

EmpiresUnit(unit_id) ==
    CASE unit_id = Archer ->
           [interaction_mode |-> Normal, terrain_restriction |-> "Land",
            battle_params |-> Some(<<<<1, 4>>>>, <<<<2, 0>>>>)]
      [] unit_id = Swordsman ->
           [interaction_mode |-> Normal, terrain_restriction |-> "Land",
            battle_params |-> Some(<<<<2, 6>>, <<2, 1>>>>, <<<<3, 1>>, <<1, 2>>>>)]
      [] unit_id = Villager ->
           [interaction_mode |-> Normal, terrain_restriction |-> "Land",
            battle_params |-> Some(<<>>, <<>>)]
      [] unit_id = Tree ->
           [interaction_mode |-> Normal, terrain_restriction |-> "Land",
            battle_params |-> None]
      [] unit_id = Corpse ->
           [interaction_mode |-> NonInteracting, terrain_restriction |-> "Land",
            battle_params |-> Some(<<<<1, 4>>>>, <<>>)]
      [] unit_id = Boat ->
           [interaction_mode |-> Normal, terrain_restriction |-> "Water",
            battle_params |-> Some(<<<<1, 3>>>>, <<<<1, 0>>>>)]

\* bp.attacks.iter().map(|&(class, _)| class).collect::<HashSet<_>>()
ClassSet(pairs) == {pairs[k][1] : k \in 1..Len(pairs)}

(***************************************************************************)
(* The entities of a scene.                                                *)
(***************************************************************************)
Unit(unit_id, player_id) == [unit_id |-> unit_id, player_id |-> player_id]

\* an entity of a scene: its UnitComponent and whether it carries an
\* OnScreenComponent and a TransformComponent
Ent(unit_id, player_id, on_screen, transform) ==
    [unit |-> Unit(unit_id, player_id), on_screen |-> on_screen, transform |-> transform]

Here(unit_id, player_id) == Ent(unit_id, player_id, TRUE, TRUE)

Scenes ==
    { <<Here(Archer, LocalPlayer),    Here(Swordsman, OtherPlayer)>>,
      <<Here(Swordsman, OtherPlayer), Here(Archer, LocalPlayer)>>,
      <<Here(Archer, LocalPlayer),    Here(Archer, OtherPlayer)>>,
      <<Here(Archer, LocalPlayer),    Here(Villager, OtherPlayer)>>,
      <<Here(Villager, LocalPlayer),  Here(Villager, OtherPlayer)>>,
      <<Here(Tree, LocalPlayer),      Here(Villager, OtherPlayer)>>,
      <<Here(Archer, LocalPlayer),    Here(Tree, OtherPlayer)>>,
      <<Here(Archer, LocalPlayer),    Here(Corpse, OtherPlayer)>>,
      <<Here(Corpse, OtherPlayer),    Here(Archer, LocalPlayer)>>,
      <<Here(Archer, LocalPlayer),    Here(Boat, LocalPlayer)>>,
      <<Here(Archer, LocalPlayer),    Here(Swordsman, LocalPlayer)>>,
      <<Here(Swordsman, OtherPlayer), Here(Archer, OtherPlayer)>>,
      <<Here(Archer, LocalPlayer),    Ent(Swordsman, OtherPlayer, FALSE, TRUE)>>,
      <<Ent(Swordsman, OtherPlayer, FALSE, TRUE), Here(Archer, LocalPlayer)>>,
      <<Here(Archer, LocalPlayer),    Ent(Swordsman, OtherPlayer, TRUE, FALSE)>>,
      <<Ent(Archer, LocalPlayer, TRUE, FALSE), Here(Swordsman, OtherPlayer)>>,
      <<Here(Archer, LocalPlayer), Here(Archer, OtherPlayer), Here(Villager, OtherPlayer)>> }

Entities == 1..Len(units_comp)

Info(e) == EmpiresUnit(units_comp[e].unit_id)

(***************************************************************************)
(* The mouse ray.  The ground point and the origin are distinct points.    *)
(***************************************************************************)
MouseRay == [world_coord |-> "ground", origin |-> "above"]

KeyStates == {"Down", "TransitionUp"}
Keys == {"ShiftLeft", "CtrlLeft"}

is_up(key) == key \notin keys_down

ClearQueue == [type |-> "ClearQueue"]
MoveToPosition(path) == [type |-> "MoveToPosition", path |-> path]

\* path_finder_rc.find_path: a unit restricted to water has no path to the
\* ground point, which is on land; the result is empty then.
find_path(from, to, restriction) ==
    IF restriction = "Land" THEN <<from, to>> ELSE <<>>

\* transform.position(): every entity stands on a point of its own
Position(e) == e

(***************************************************************************)
(* calculate_mouse_ray.  Points are [x, z] with z the elevation; a pixel   *)
(* is a number.  The pixels of one screen line hold one point per          *)
(* elevation.                                                              *)
(***************************************************************************)
Point(x, z) == [x |-> x, z |-> z]

\* view_projector.unproject_at_elevation: the point of the screen line of
\* the pixel at the elevation
unproject_at_elevation(pixel, elevation) == Point(pixel + elevation, elevation)

\* view_projector.unproject: the point of the screen line of the pixel on
\* the terrain surface
unproject(pixel, terr) == unproject_at_elevation(pixel, terr.height)

Minus(p, q) == Point(p.x - q.x, p.z - q.z)

NoRay == [world_coord |-> Point(0, 0), origin |-> Point(0, 0),
          direction |-> Point(0, 0), cast |-> FALSE]

\* line 242
OriginElevation(terr) == terr.elevation_range[2] * 2

calculate_mouse_ray(viewport, mouse, terr) ==
    LET viewport_pos == viewport
        mouse_pos == mouse + viewport_pos
        origin_elevation == OriginElevation(terr)
        world_coord == unproject(mouse_pos, terr)
        origin == unproject_at_elevation(mouse_pos, origin_elevation)
        direction == Minus(world_coord, origin)
    IN  [world_coord |-> world_coord, origin |-> origin,
         direction |-> direction, cast |-> TRUE]

\* the terrains: an elevation range and, within it, the height under the cursor
Terrains ==
    {t \in [elevation_range : (0..MaxElevation) \X (0..MaxElevation), height : 0..MaxElevation] :
        t.elevation_range[1] <= t.height /\ t.height <= t.elevation_range[2]}

Decal(variant, position) == [variant |-> variant, position |-> position]

(***************************************************************************)
(* Targetability: the two labelled loops 'f_selected and 'f_on_screen.     *)
(* Joins iterate in ascending entity id and yield only the entities that   *)
(* carry every joined component.                                           *)
(***************************************************************************)
\* mutant: an empty armor list no longer matches
Compatible_NoEmptyArmor(attack_classes, armor_classes) ==
    attack_classes \cap armor_classes # {}

\* the class test of line 154
Compatible(attack_classes, armor_classes) ==
    armor_classes = {} \/ attack_classes \cap armor_classes # {}

\* mutant: the cell under the cursor is not consulted
CandidateHit_NoCellTest(entity_id, attack_classes, other) ==
    /\ entity_id # other
    /\ units_comp[other].player_id # LocalPlayer
    /\ Info(other).interaction_mode # NonInteracting
    /\ Info(other).battle_params.some
    /\ other \in ray_hits
    /\ Compatible(attack_classes, ClassSet(Info(other).battle_params.armors))

\* the tests of one candidate of the inner loop, for an attacker entity_id
\* with attack classes attack_classes
CandidateHit(entity_id, attack_classes, other) ==
    /\ other \in entity_ids_in_cell
    /\ entity_id # other
    /\ units_comp[other].player_id # LocalPlayer
    /\ Info(other).interaction_mode # NonInteracting
    /\ Info(other).battle_params.some
    /\ other \in ray_hits
    /\ Compatible(attack_classes, ClassSet(Info(other).battle_params.armors))

RECURSIVE FOnScreen(_, _, _)
FOnScreen(entity_id, attack_classes, other) ==
    IF other > Len(units_comp) THEN FALSE
    ELSE IF other \in transforms_comp /\ other \in on_screen_comp
              /\ CandidateHit(entity_id, attack_classes, other)
         THEN TRUE
         ELSE FOnScreen(entity_id, attack_classes, other + 1)

\* mutant: an attacker without attack classes is not skipped
RECURSIVE FSelected_NoEmptyTest(_, _)
FSelected_NoEmptyTest(selected, entity) ==
    IF entity > Len(units_comp) THEN FALSE
    ELSE IF entity \notin selected THEN FSelected_NoEmptyTest(selected, entity + 1)
    ELSE IF ~Info(entity).battle_params.some THEN FSelected_NoEmptyTest(selected, entity + 1)
    ELSE IF FOnScreen(entity, ClassSet(Info(entity).battle_params.attacks), 1)
         THEN TRUE
         ELSE FSelected_NoEmptyTest(selected, entity + 1)

RECURSIVE FSelected(_, _)
FSelected(selected, entity) ==
    IF entity > Len(units_comp) THEN FALSE
    ELSE IF entity \notin selected THEN FSelected(selected, entity + 1)
    ELSE IF ~Info(entity).battle_params.some THEN FSelected(selected, entity + 1)
    ELSE IF ClassSet(Info(entity).battle_params.attacks) = {}
         THEN FSelected(selected, entity + 1)
    ELSE IF FOnScreen(entity, ClassSet(Info(entity).battle_params.attacks), 1)
         THEN TRUE
         ELSE FSelected(selected, entity + 1)

Targetable(selected) == FSelected(selected, 1)

\* mutant: the attack decal is put at the origin of the ray
AttackDecal_AtOrigin(targetable, decals) ==
    IF targetable THEN Append(decals, Decal(1, MouseRay.origin)) ELSE decals

AttackDecal(targetable, decals) ==
    IF targetable THEN Append(decals, Decal(1, MouseRay.world_coord)) ELSE decals

(***************************************************************************)
(* Selection: the block run when the left button is released.              *)
(***************************************************************************)
\* mutant: the loop does not stop at the first hit
RECURSIVE SelectFirst_NoBreak(_, _)
SelectFirst_NoBreak(selected, entity) ==
    IF entity > Len(units_comp) THEN selected
    ELSE IF entity \in on_screen_comp /\ entity \in transforms_comp
              /\ Info(entity).interaction_mode # NonInteracting
              /\ entity \in ray_hits
         THEN SelectFirst_NoBreak(selected \cup {entity}, entity + 1)
         ELSE SelectFirst_NoBreak(selected, entity + 1)

\* mutant: the join leaves out the OnScreenComponent
RECURSIVE SelectFirst_OffScreen(_, _)
SelectFirst_OffScreen(selected, entity) ==
    IF entity > Len(units_comp) THEN selected
    ELSE IF entity \in transforms_comp
              /\ Info(entity).interaction_mode # NonInteracting
              /\ entity \in ray_hits
         THEN selected \cup {entity}
         ELSE SelectFirst_OffScreen(selected, entity + 1)

\* mutant: the interaction mode is not tested
RECURSIVE SelectFirst_AnyMode(_, _)
SelectFirst_AnyMode(selected, entity) ==
    IF entity > Len(units_comp) THEN selected
    ELSE IF entity \in on_screen_comp /\ entity \in transforms_comp
              /\ entity \in ray_hits
         THEN selected \cup {entity}
         ELSE SelectFirst_AnyMode(selected, entity + 1)

RECURSIVE SelectFirst(_, _)
SelectFirst(selected, entity) ==
    IF entity > Len(units_comp) THEN selected
    ELSE IF entity \in on_screen_comp /\ entity \in transforms_comp
              /\ Info(entity).interaction_mode # NonInteracting
              /\ entity \in ray_hits
         THEN selected \cup {entity}
         ELSE SelectFirst(selected, entity + 1)

\* mutant: the selection is cleared whatever the shift key does
SelectionUpdater_AlwaysClear(selected) ==
    IF mouse_left = "TransitionUp" THEN SelectFirst({}, 1) ELSE selected

\* mutant: the test of the shift key is inverted
SelectionUpdater_ShiftInverted(selected) ==
    IF mouse_left = "TransitionUp"
    THEN SelectFirst(IF is_up("ShiftLeft") THEN selected ELSE {}, 1)
    ELSE selected

\* mutant: the block runs whatever the left button does
SelectionUpdater_NoEdgeTest(selected) ==
    SelectFirst(IF is_up("ShiftLeft") THEN {} ELSE selected, 1)

SelectionUpdater(selected) ==
    IF mouse_left = "TransitionUp"
    THEN SelectFirst(IF is_up("ShiftLeft") THEN {} ELSE selected, 1)
    ELSE selected

(***************************************************************************)
(* Commands: the block run when the right button is released.              *)
(***************************************************************************)
\* mutant: the owner of the entity is not tested
Commanded_AnyOwner(selected, entity) ==
    /\ entity \in transforms_comp
    /\ entity \in selected

Commanded(selected, entity) ==
    /\ entity \in transforms_comp
    /\ entity \in selected
    /\ units_comp[entity].player_id = LocalPlayer

\* mutant: ClearQueue is queued after the move
QueueFor_ClearLast(queue, entity) ==
    LET path == find_path(Position(entity), MouseRay.world_coord,
                          Info(entity).terrain_restriction)
        moved == Append(queue, MoveToPosition(path))
    IN  IF is_up("CtrlLeft") THEN Append(moved, ClearQueue) ELSE moved

\* mutant: an entity without a path gets no command
QueueFor_SkipEmptyPath(queue, entity) ==
    LET path == find_path(Position(entity), MouseRay.world_coord,
                          Info(entity).terrain_restriction)
        cleared == IF is_up("CtrlLeft") THEN Append(queue, ClearQueue) ELSE queue
    IN  IF path = <<>> THEN queue ELSE Append(cleared, MoveToPosition(path))

\* mutant: ClearQueue is put at the head of the queue
QueueFor_ClearAtHead(queue, entity) ==
    LET path == find_path(Position(entity), MouseRay.world_coord,
                          Info(entity).terrain_restriction)
        cleared == IF is_up("CtrlLeft") THEN <<ClearQueue>> \o queue ELSE queue
    IN  Append(cleared, MoveToPosition(path))

QueueFor(queue, entity) ==
    LET path == find_path(Position(entity), MouseRay.world_coord,
                          Info(entity).terrain_restriction)
        cleared == IF is_up("CtrlLeft") THEN Append(queue, ClearQueue) ELSE queue
    IN  Append(cleared, MoveToPosition(path))

\* mutant: the block runs whatever the right button does
CommandQueuer_NoEdgeTest(selected, batcher) ==
    [e \in DOMAIN batcher |->
        IF Commanded(selected, e) THEN QueueFor(batcher[e], e) ELSE batcher[e]]

CommandQueuer(selected, batcher) ==
    IF mouse_right = "TransitionUp"
    THEN [e \in DOMAIN batcher |->
            IF Commanded(selected, e) THEN QueueFor(batcher[e], e) ELSE batcher[e]]
    ELSE batcher

\* mutant: moving_unit is set before the loop
moving_unit_Always(selected) ==
    mouse_right = "TransitionUp"

moving_unit(selected) ==
    mouse_right = "TransitionUp" /\ \E e \in Entities : Commanded(selected, e)

MoveDecal(selected, decals) ==
    IF moving_unit(selected) THEN Append(decals, Decal(0, MouseRay.world_coord)) ELSE decals

(***************************************************************************)
(* The pass and its environment.                                           *)
(***************************************************************************)
SelectedAfter == SelectionUpdater(selected_units_comp)
\* mutant: the command block runs before the selection block
BatcherAfter_OldSelection == CommandQueuer(selected_units_comp, action_batcher)

BatcherAfter == CommandQueuer(SelectedAfter, action_batcher)
DecalsAfter ==
    MoveDecal(SelectedAfter, AttackDecal(Targetable(selected_units_comp), decals_comp))

(***************************************************************************)
(* History of the left clicks.  The unit a click is on is the first        *)
(* on-screen, interacting entity, in ascending id, whose selection box the *)
(* ray intersects; 0 when there is none.  clicks.stage is                  *)
(*   "one"   after a click on u1 without the additive modifier,            *)
(*   "twice" after a second such click on the same u1,                     *)
(*   "two"   after "one" or "twice" and then a click on u2 with it held,   *)
(*   "three" after "two" and then a click on the same u2 without it,       *)
(*   "none"  otherwise.                                                    *)
(***************************************************************************)
Eligible(e) ==
    /\ e \in on_screen_comp
    /\ Info(e).interaction_mode = Normal
    /\ e \in ray_hits

ClickedUnit ==
    IF \E e \in Entities : Eligible(e)
    THEN CHOOSE e \in Entities : Eligible(e) /\ \A f \in Entities : Eligible(f) => e <= f
    ELSE 0

NoClicks == [stage |-> "none", u1 |-> 0, u2 |-> 0]

ClicksAfter ==
    LET u == ClickedUnit
        additive == ~is_up("ShiftLeft")
    IN  IF mouse_left # "TransitionUp" THEN clicks
        ELSE IF u = 0 THEN NoClicks
        ELSE IF additive
             THEN IF clicks.stage \in {"one", "twice"}
                  THEN [stage |-> "two", u1 |-> clicks.u1, u2 |-> u]
                  ELSE IF clicks.stage = "three"
                       THEN [stage |-> "two", u1 |-> clicks.u2, u2 |-> u]
                       ELSE NoClicks
        ELSE IF clicks.stage = "two" /\ clicks.u2 = u
             THEN [stage |-> "three", u1 |-> clicks.u1, u2 |-> u]
        ELSE IF \/ clicks.stage \in {"one", "twice"} /\ clicks.u1 = u
                \/ clicks.stage = "three" /\ clicks.u2 = u
             THEN [stage |-> "twice", u1 |-> u, u2 |-> 0]
             ELSE [stage |-> "one", u1 |-> u, u2 |-> 0]

(***************************************************************************)
(* Missing components.  The loops of the pass are joins: an entity that    *)
(* lacks one of the joined components is not yielded, and no statement of  *)
(* the pass fails because of it.                                           *)
(***************************************************************************)
\* the entities that carry the marker of a loop of this pass, but no Transform
MissingTransform(selected) ==
    {e \in on_screen_comp \ transforms_comp : mouse_left = "TransitionUp"}
       \cup {e \in SelectionUpdater(selected) \ transforms_comp : mouse_right = "TransitionUp"}

\* mutant: the loops fetch the Transform of every marked entity and fail without it
Fatal_MissingTransform(selected) == MissingTransform(selected) # {}

Fatal(selected) == FALSE

WithinBounds ==
    /\ Len(DecalsAfter) <= MaxDecals
    /\ \A e \in Entities : Len(BatcherAfter[e]) <= MaxQueue

Init ==
    /\ \E scene \in Scenes :
         /\ units_comp = [e \in 1..Len(scene) |-> scene[e].unit]
         /\ transforms_comp = {e \in 1..Len(scene) : scene[e].transform}
         /\ on_screen_comp = {e \in 1..Len(scene) : scene[e].on_screen}
         /\ action_batcher = [e \in 1..Len(scene) |-> <<>>]
    /\ selected_units_comp = {}
    /\ decals_comp = <<>>
    /\ mouse_left = "Down"
    /\ mouse_right = "Down"
    /\ keys_down = {}
    /\ entity_ids_in_cell = {}
    /\ ray_hits = {}
    /\ cursor_over_targetable_entity = FALSE
    /\ clicks = NoClicks
    /\ pc = "input"
    /\ terrain = [elevation_range |-> <<0, 1>>, height |-> 0]
    /\ mouse_position = 0
    /\ viewport_top_left = 0
    /\ mouse_ray = NoRay

\* the other systems write the resources the pass reads
Input ==
    /\ pc = "input"
    /\ mouse_left' \in KeyStates
    /\ mouse_right' \in KeyStates
    /\ keys_down' \in SUBSET Keys
    /\ entity_ids_in_cell' \in SUBSET Entities
    /\ ray_hits' \in SUBSET transforms_comp    \* a selection box is built from the transform
    /\ pc' = "update"
    /\ UNCHANGED <<units_comp, transforms_comp, on_screen_comp, selected_units_comp,
                   action_batcher, decals_comp, cursor_over_targetable_entity, clicks>>
    /\ UNCHANGED ray_vars
    /\ WithinBounds'

\* UnitSelectionSystem::update
Update ==
    /\ pc = "update"
    /\ cursor_over_targetable_entity' = Targetable(selected_units_comp)
    /\ selected_units_comp' = SelectedAfter
    /\ action_batcher' = BatcherAfter
    /\ decals_comp' = DecalsAfter
    /\ clicks' = ClicksAfter
    /\ pc' = IF Fatal(selected_units_comp) THEN "failed" ELSE "done"
    /\ UNCHANGED <<units_comp, transforms_comp, on_screen_comp, mouse_left, mouse_right,
                   keys_down, entity_ids_in_cell, ray_hits>>
    /\ UNCHANGED ray_vars

\* the frame ends: what the pass read is stale, and every resource is
\* written again before the next pass
EndFrame ==
    /\ pc = "done"
    /\ mouse_left' = "Down"
    /\ mouse_right' = "Down"
    /\ keys_down' = {}
    /\ entity_ids_in_cell' = {}
    /\ ray_hits' = {}
    /\ pc' = "input"
    /\ UNCHANGED <<units_comp, transforms_comp, on_screen_comp, selected_units_comp,
                   action_batcher, decals_comp, cursor_over_targetable_entity, clicks>>
    /\ UNCHANGED ray_vars

Next == Input \/ Update \/ EndFrame

Spec == Init /\ [][Next]_vars

(***************************************************************************)
(* The ray on its own: calculate_mouse_ray applied to every terrain, mouse *)
(* position and viewport of the bounds.                                    *)
(***************************************************************************)
InitRay ==
    /\ units_comp = <<>>
    /\ transforms_comp = {}
    /\ on_screen_comp = {}
    /\ action_batcher = <<>>
    /\ selected_units_comp = {}
    /\ decals_comp = <<>>
    /\ mouse_left = "Down"
    /\ mouse_right = "Down"
    /\ keys_down = {}
    /\ entity_ids_in_cell = {}
    /\ ray_hits = {}
    /\ cursor_over_targetable_entity = FALSE
    /\ clicks = NoClicks
    /\ pc = "ray"
    /\ terrain \in Terrains
    /\ mouse_position \in 0..MaxPixel
    /\ viewport_top_left \in 0..MaxPixel
    /\ mouse_ray = NoRay

\* line 92
CalculateMouseRay ==
    /\ pc = "ray"
    /\ mouse_ray' = calculate_mouse_ray(viewport_top_left, mouse_position, terrain)
    /\ pc' = "rayed"
    /\ UNCHANGED <<terrain, mouse_position, viewport_top_left>>
    /\ UNCHANGED pass_vars

NextRay == CalculateMouseRay

SpecRay == InitRay /\ [][NextRay]_vars

(***************************************************************************)
(* Vocabulary of the properties.                                           *)
(***************************************************************************)
Released(button) == button = "TransitionUp"

Local(e) == units_comp[e].player_id = LocalPlayer

AttackClasses(e) ==
    IF Info(e).battle_params.some THEN ClassSet(Info(e).battle_params.attacks) ELSE {}

ArmorClasses(e) ==
    IF Info(e).battle_params.some THEN ClassSet(Info(e).battle_params.armors) ELSE {}

PathTo(e) == find_path(Position(e), MouseRay.world_coord, Info(e).terrain_restriction)

\* b is an on-screen entity other than a whose selection box the ray intersects
UnderCursor(a, b) == b \in on_screen_comp /\ b \in ray_hits /\ a # b

\* the classes of attacker a and candidate b are compatible
ClassMatch(a, b) ==
    ArmorClasses(b) = {} \/ \E c \in AttackClasses(a) : c \in ArmorClasses(b)

\* candidate b passes every filter of the targetability pass for attacker a
PassesFilters(a, b) ==
    /\ UnderCursor(a, b)
    /\ b \in entity_ids_in_cell
    /\ ~Local(b)
    /\ Info(b).interaction_mode = Normal
    /\ Info(b).battle_params.some

\* attacker a would target candidate b, the tests of b's cell, interaction
\* mode and combat parameters left aside
WouldTarget(a, b) ==
    /\ a \in selected_units_comp
    /\ AttackClasses(a) # {}
    /\ UnderCursor(a, b)
    /\ ~Local(b)
    /\ ClassMatch(a, b)

NewDecals == SubSeq(decals_comp', Len(decals_comp) + 1, Len(decals_comp'))

(***************************************************************************)
(* C1: on a pass where the right button is released, every entity that is  *)
(* selected and owned by the local player gets exactly ClearQueue then     *)
(* MoveToPosition(path to the ground point) appended when the append       *)
(* modifier is up, and exactly one MoveToPosition, after what was queued,  *)
(* when it is held.                                                        *)
(***************************************************************************)
C1_CommandsAppended ==
    [][pc = "update" /\ Released(mouse_right) =>
         \A e \in Entities :
            e \in selected_units_comp' /\ Local(e) =>
               action_batcher'[e] =
                  action_batcher[e] \o
                     (IF "CtrlLeft" \in keys_down
                      THEN <<MoveToPosition(PathTo(e))>>
                      ELSE <<ClearQueue, MoveToPosition(PathTo(e))>>)]_vars

C1_Witness ==
    /\ pc = "done" /\ Released(mouse_right) /\ "CtrlLeft" \in keys_down
    /\ \E e \in selected_units_comp :
          /\ Local(e)
          /\ action_batcher[e] =
                <<ClearQueue, MoveToPosition(PathTo(e)), MoveToPosition(PathTo(e))>>

(***************************************************************************)
(* C2: a pass marks at most one entity selected that was not selected      *)
(* before, and it is the first on-screen, interacting entity in iteration  *)
(* order whose selection box the ray intersects.                           *)
(***************************************************************************)
C2_AtMostOneNew ==
    [][pc = "update" =>
         LET new == selected_units_comp' \ selected_units_comp
         IN  /\ Cardinality(new) <= 1
             /\ new # {} => Released(mouse_left) /\ new = {ClickedUnit}]_vars

C2_Witness ==
    /\ pc = "done" /\ Released(mouse_left) /\ "ShiftLeft" \in keys_down
    /\ Cardinality({e \in Entities : Eligible(e)}) >= 2
    /\ ClickedUnit \in selected_units_comp
    /\ \E e \in Entities : Eligible(e) /\ e \notin selected_units_comp

(***************************************************************************)
(* C3: a click on U1 without the additive modifier, a click on U2 with it  *)
(* held, and a click on U2 without it leave the selections {U1}, {U1, U2}  *)
(* and {U2}, whatever was selected before.                                 *)
(***************************************************************************)
C3_AdditiveSequence ==
    /\ clicks.stage = "one" => selected_units_comp = {clicks.u1}
    /\ clicks.stage = "two" => selected_units_comp = {clicks.u1, clicks.u2}
    /\ clicks.stage = "three" => selected_units_comp = {clicks.u2}

C3_Witness ==
    /\ pc = "done" /\ Released(mouse_left)
    /\ clicks.stage = "three" /\ clicks.u1 # clicks.u2
    /\ selected_units_comp = {clicks.u2}

(***************************************************************************)
(* C4: two clicks on the same unit U without the additive modifier leave   *)
(* exactly {U} selected after the first and after the second.              *)
(***************************************************************************)
C4_ClickIdempotent ==
    clicks.stage \in {"one", "twice"} => selected_units_comp = {clicks.u1}

C4_Witness ==
    /\ pc = "done" /\ Released(mouse_left) /\ "ShiftLeft" \notin keys_down
    /\ clicks.stage = "twice"
    /\ selected_units_comp = {clicks.u1}

(***************************************************************************)
(* C5: a left click that hits no on-screen, interacting entity empties the *)
(* selection when the additive modifier is up and leaves it as it was when *)
(* the modifier is held.                                                   *)
(***************************************************************************)
C5_ClickOnNothing ==
    [][pc = "update" /\ Released(mouse_left) /\ ClickedUnit = 0 =>
         selected_units_comp' =
            (IF "ShiftLeft" \in keys_down THEN selected_units_comp ELSE {})]_vars

C5_Witness ==
    /\ pc = "done" /\ Released(mouse_left) /\ ClickedUnit = 0
    /\ "ShiftLeft" \in keys_down
    /\ ray_hits # {}
    /\ selected_units_comp # {}

(***************************************************************************)
(* C6 as stated: an entity outside the cell under the cursor is never      *)
(* newly selected by a left click and never makes the cursor targetable.   *)
(***************************************************************************)
C6_CellFilterEverywhere ==
    [][pc = "update" =>
         /\ \A e \in selected_units_comp' \ selected_units_comp : e \in entity_ids_in_cell
         /\ (\A a, b \in Entities :
                WouldTarget(a, b) /\ Info(b).interaction_mode = Normal
                   /\ Info(b).battle_params.some => b \notin entity_ids_in_cell)
               => ~cursor_over_targetable_entity']_vars

(***************************************************************************)
(* C6 as amended: an entity outside the cell under the cursor never makes  *)
(* the cursor targetable, even when the ray intersects its selection box   *)
(* and it passes every other test.                                         *)
(***************************************************************************)
C6_CellFilterTargets ==
    [][pc = "update" =>
         ((\A a, b \in Entities :
               WouldTarget(a, b) /\ Info(b).interaction_mode = Normal
                  /\ Info(b).battle_params.some => b \notin entity_ids_in_cell)
            => ~cursor_over_targetable_entity')]_vars

C6_Witness ==
    /\ pc = "done" /\ ~Released(mouse_left)
    /\ \E a, b \in Entities :
          /\ WouldTarget(a, b) /\ b \notin entity_ids_in_cell
          /\ Info(b).interaction_mode = Normal /\ Info(b).battle_params.some
    /\ ~cursor_over_targetable_entity

(***************************************************************************)
(* C7: a selected attacker A with attack classes makes the cursor          *)
(* targetable because of a candidate B that passes every filter exactly    *)
(* when B has no armor class or shares a class with A's attacks.           *)
(***************************************************************************)
C7_ClassCompatibility ==
    [][pc = "update" =>
         (cursor_over_targetable_entity' <=>
             \E a \in selected_units_comp, b \in Entities :
                AttackClasses(a) # {} /\ PassesFilters(a, b) /\ ClassMatch(a, b))]_vars

C7_Witness ==
    /\ pc = "done" /\ ~Released(mouse_left)
    /\ cursor_over_targetable_entity
    /\ \E a \in selected_units_comp :
          /\ AttackClasses(a) # {}
          /\ \E b \in Entities :
                PassesFilters(a, b) /\ ArmorClasses(b) # {} /\ ~ClassMatch(a, b)
          /\ \E b \in Entities : PassesFilters(a, b) /\ ArmorClasses(b) = {}

(***************************************************************************)
(* C8: when every selected entity has no attack class or no combat         *)
(* parameters, the pass finds the cursor not targetable and spawns no      *)
(* attack decal, whatever is under the cursor.                             *)
(***************************************************************************)
C8_NoAttackNoTarget ==
    [][pc = "update" /\ (\A a \in selected_units_comp : AttackClasses(a) = {}) =>
         /\ ~cursor_over_targetable_entity'
         /\ \A i \in 1..Len(NewDecals) : NewDecals[i].variant # 1]_vars

C8_Witness ==
    /\ pc = "done" /\ ~Released(mouse_left)
    /\ selected_units_comp # {}
    /\ \A a \in selected_units_comp : AttackClasses(a) = {}
    /\ \E a \in selected_units_comp, b \in Entities :
          PassesFilters(a, b) /\ ClassMatch(a, b)
    /\ ~cursor_over_targetable_entity

(***************************************************************************)
(* C9: starting from an empty selection, no NonInteracting entity is ever  *)
(* selected, and the cursor is never targetable when every candidate in    *)
(* the cell that a selected attacker would target is NonInteracting or has *)
(* no combat parameters.                                                   *)
(***************************************************************************)
C9_NonInteractingExcluded ==
    /\ [](\A e \in selected_units_comp : Info(e).interaction_mode # NonInteracting)
    /\ [][pc = "update" =>
            ((\A a, b \in Entities :
                  WouldTarget(a, b) /\ b \in entity_ids_in_cell
                     => \/ Info(b).interaction_mode = NonInteracting
                        \/ ~Info(b).battle_params.some)
               => ~cursor_over_targetable_entity')]_vars

C9_Witness ==
    /\ pc = "done" /\ Released(mouse_left) /\ "ShiftLeft" \in keys_down
    /\ \E a, b \in Entities :
          /\ a \notin ray_hits
          /\ WouldTarget(a, b) /\ b \in entity_ids_in_cell
          /\ Info(b).interaction_mode = NonInteracting
          /\ b \notin selected_units_comp
    /\ ~cursor_over_targetable_entity

(***************************************************************************)
(* C10 as stated: in every pass, running the command block before the      *)
(* selection block gives the selection and the queues the pass gives.      *)
(***************************************************************************)
CommandsThenSelection ==
    <<SelectionUpdater(selected_units_comp),
      CommandQueuer(selected_units_comp, action_batcher)>>

C10_BlocksCommute ==
    [][pc = "update" =>
         <<selected_units_comp', action_batcher'>> = CommandsThenSelection]_vars

(***************************************************************************)
(* C10 as amended: the two blocks commute in every pass where at most one  *)
(* of the two buttons is released.                                         *)
(***************************************************************************)
C10_BlocksCommuteOneEdge ==
    [][pc = "update" /\ ~(Released(mouse_left) /\ Released(mouse_right)) =>
         <<selected_units_comp', action_batcher'>> = CommandsThenSelection]_vars

C10_Witness ==
    /\ pc = "done" /\ Released(mouse_right) /\ ~Released(mouse_left)
    /\ ray_hits # {} /\ ClickedUnit # 0 /\ ClickedUnit \notin selected_units_comp
    /\ Local(ClickedUnit)
    /\ \E e \in selected_units_comp : Local(e) /\ action_batcher[e] # <<>>

(***************************************************************************)
(* Vocabulary of the decal and queue properties.                           *)
(***************************************************************************)
\* the decals of one variant among the decals a pass creates
NewDecalsOf(variant) == {i \in 1..Len(NewDecals) : NewDecals[i].variant = variant}

\* some selected attacker and some candidate form a targetable pair
TargetPair ==
    \E a \in selected_units_comp, b \in Entities :
       AttackClasses(a) # {} /\ PassesFilters(a, b) /\ ClassMatch(a, b)

\* entity e got a command in this pass
GotCommand(e) == action_batcher'[e] # action_batcher[e]

IsPrefix(p, q) == Len(p) <= Len(q) /\ SubSeq(q, 1, Len(p)) = p

Appended(e) == SubSeq(action_batcher'[e], Len(action_batcher[e]) + 1, Len(action_batcher'[e]))

(***************************************************************************)
(* C11: every pass, with or without a button edge, creates exactly one     *)
(* attack decal (variant 1), at the ground point of the ray, when some     *)
(* selected attacker and some candidate form a targetable pair, however    *)
(* many such pairs there are, and none otherwise.                          *)
(***************************************************************************)
C11_OneAttackDecal ==
    [][pc = "update" =>
         /\ Cardinality(NewDecalsOf(1)) = (IF TargetPair THEN 1 ELSE 0)
         /\ \A i \in NewDecalsOf(1) : NewDecals[i].position = MouseRay.world_coord]_vars

C11_Witness ==
    /\ pc = "done" /\ ~Released(mouse_left) /\ ~Released(mouse_right)
    /\ Cardinality({pair \in selected_units_comp \X Entities :
                       /\ AttackClasses(pair[1]) # {}
                       /\ PassesFilters(pair[1], pair[2])
                       /\ ClassMatch(pair[1], pair[2])}) >= 2
    /\ decals_comp = <<Decal(1, MouseRay.world_coord)>>

(***************************************************************************)
(* C12: a pass creates exactly one move decal (variant 0) when the right   *)
(* button is released and at least one entity got a command, and none      *)
(* otherwise.                                                              *)
(***************************************************************************)
C12_OneMoveDecal ==
    [][pc = "update" =>
         Cardinality(NewDecalsOf(0)) =
            (IF Released(mouse_right) /\ \E e \in Entities : GotCommand(e) THEN 1 ELSE 0)]_vars

C12_Witness ==
    /\ pc = "done" /\ Released(mouse_right)
    /\ Cardinality({e \in selected_units_comp : Local(e) /\ action_batcher[e] # <<>>}) >= 2
    /\ decals_comp = <<Decal(0, MouseRay.world_coord)>>

(***************************************************************************)
(* C13: the selection changes only in a pass where the left button is      *)
(* released and the queues change only in a pass where the right button is *)
(* released.                                                               *)
(***************************************************************************)
C13_EdgesOnly ==
    [][/\ selected_units_comp' # selected_units_comp
             => pc = "update" /\ Released(mouse_left)
       /\ action_batcher' # action_batcher
             => pc = "update" /\ Released(mouse_right)]_vars

C13_Witness ==
    /\ pc = "done" /\ ~Released(mouse_left) /\ ~Released(mouse_right)
    /\ ClickedUnit # 0 /\ ClickedUnit \notin selected_units_comp
    /\ \E e \in selected_units_comp : Local(e) /\ action_batcher[e] = <<>>

(***************************************************************************)
(* C14: only an entity that is selected and owned by the local player when *)
(* the right button is released gets a command; the queue of an entity of  *)
(* another player stays empty even while that entity is selected.          *)
(***************************************************************************)
C14_OnlySelectedLocal ==
    /\ [](\A e \in Entities : ~Local(e) => action_batcher[e] = <<>>)
    /\ [][\A e \in Entities :
             GotCommand(e) => /\ pc = "update" /\ Released(mouse_right)
                              /\ e \in selected_units_comp' /\ Local(e)]_vars

C14_Witness ==
    /\ pc = "done" /\ Released(mouse_right)
    /\ \E e \in selected_units_comp : ~Local(e) /\ action_batcher[e] = <<>>
    /\ \E e \in selected_units_comp : Local(e) /\ action_batcher[e] # <<>>

(***************************************************************************)
(* C15: when the pathfinder finds no path for a selected entity of the     *)
(* local player, the pass still queues MoveToPosition with the empty path, *)
(* after ClearQueue when the append modifier is up, once, and still        *)
(* creates the move decal.                                                 *)
(***************************************************************************)
C15_EmptyPathPassedOn ==
    [][pc = "update" /\ Released(mouse_right) =>
         \A e \in Entities :
            e \in selected_units_comp' /\ Local(e) /\ PathTo(e) = <<>> =>
               /\ Appended(e) = (IF "CtrlLeft" \in keys_down
                                 THEN <<MoveToPosition(<<>>)>>
                                 ELSE <<ClearQueue, MoveToPosition(<<>>)>>)
               /\ IsPrefix(action_batcher[e], action_batcher'[e])
               /\ Cardinality(NewDecalsOf(0)) = 1
               /\ pc' = "done"]_vars

C15_Witness ==
    /\ pc = "done" /\ Released(mouse_right)
    /\ \E e \in Entities :
          /\ selected_units_comp = {e} /\ Local(e) /\ PathTo(e) = <<>>
          /\ action_batcher[e] = <<ClearQueue, MoveToPosition(<<>>)>>
    /\ decals_comp = <<Decal(0, MouseRay.world_coord)>>

(***************************************************************************)
(* C16: the queue of every entity before a step is a prefix of its queue   *)
(* after it, and a pass appends at most one ClearQueue and at most one     *)
(* MoveToPosition to it.                                                   *)
(***************************************************************************)
C16_AppendOnly ==
    [][\A e \in Entities :
          /\ IsPrefix(action_batcher[e], action_batcher'[e])
          /\ Len(Appended(e)) <= 2
          /\ Cardinality({i \in 1..Len(Appended(e)) : Appended(e)[i] = ClearQueue}) <= 1
          /\ Cardinality({i \in 1..Len(Appended(e)) :
                             Appended(e)[i].type = "MoveToPosition"}) <= 1]_vars

C16_Witness ==
    /\ pc = "done" /\ Released(mouse_right) /\ "CtrlLeft" \notin keys_down
    /\ \E e \in selected_units_comp :
          /\ Len(action_batcher[e]) = 3
          /\ action_batcher[e][1].type = "MoveToPosition"
          /\ action_batcher[e][2] = ClearQueue
          /\ action_batcher[e][3].type = "MoveToPosition"

(***************************************************************************)
(* C19: in a pass where the left button is released, the flag and the      *)
(* attack decal come from the selection as it was before the pass, and a   *)
(* right release in the same pass commands the selection as the left       *)
(* release leaves it.                                                      *)
(***************************************************************************)
C19_PhaseOrder ==
    [][pc = "update" /\ Released(mouse_left) =>
         /\ cursor_over_targetable_entity' = TargetPair
         /\ Cardinality(NewDecalsOf(1)) = (IF TargetPair THEN 1 ELSE 0)
         /\ Released(mouse_right) =>
               \A e \in Entities :
                  GotCommand(e) <=> e \in selected_units_comp' /\ Local(e)]_vars

C19_Witness ==
    /\ pc = "done" /\ Released(mouse_left) /\ Released(mouse_right)
    /\ "ShiftLeft" \notin keys_down
    /\ ~cursor_over_targetable_entity
    /\ \E u \in Entities :
          /\ selected_units_comp = {u} /\ Local(u)
          /\ action_batcher[u] = <<ClearQueue, MoveToPosition(PathTo(u))>>
          /\ \E b \in Entities :
                AttackClasses(u) # {} /\ PassesFilters(u, b) /\ ClassMatch(u, b)

C17_OriginAboveTerrain ==
    mouse_ray.cast =>
       /\ mouse_ray.origin.z > terrain.elevation_range[2]
       /\ mouse_ray.direction # Point(0, 0)
====
